---- MODULE Spec2Model ----
(***************************************************************************)
(* Model of update.py: the catalog reconciliation tool.                    *)
(*                                                                         *)
(* A Python str is a sequence of one-character strings, so that rfind,     *)
(* startswith, lower, strip, format and the sort of json.dump are computed *)
(* as the code computes them.  A dict is a sequence of [key, obj] records  *)
(* in insertion order; an entry (obj) is a function from its present keys  *)
(* to their values.  The content of data.json is the JSON object it holds, *)
(* as the sequence of its members in the order of the text.                *)
(***************************************************************************)
EXTENDS Naturals, Sequences, FiniteSets, TLC

VARIABLES
    file,             \* content of data.json
    images,           \* images/ directory: filename -> content hash
    pc,               \* position of main()
    writes,           \* number of runs so far that rewrote data.json
    db,               \* main: db
    db_images,        \* main: db_images
    new_images,       \* main: new_images
    dup_todo,         \* check_duplicate_images: files the for loop has not visited
    hashes,           \* check_duplicate_images: hashes
    duplicates_found, \* check_duplicate_images: duplicates_found
    reports,          \* check_duplicate_images: lines printed, as records
    new_todo,         \* main: images the classification loop has not visited
    new_image_count,  \* main: new_image_count
    image,            \* add_image: image
    tags, title, author, license, language,  \* add_image: locals
    prefill,          \* rlinput: prefill of the prompt being shown
    answer,           \* last answer read from a yes/no prompt
    prompted,         \* prompts issued since the run started / add_image was entered
    passed,           \* fields whose validator accepted in the current collection round
    loaded,           \* content of data.json when the current run read it
    written,          \* TRUE once the current run has written data.json
    prev              \* outcome of the previous run: whether it wrote, what, how many
                      \* images it added, whether that is every new image with an extension

fieldVars == <<tags, title, author, license, language>>
dupVars   == <<dup_todo, hashes, duplicates_found, reports>>
scanVars  == <<db_images, new_images>>
vars == <<file, images, pc, writes, db, db_images, new_images, dup_todo, hashes,
          duplicates_found, reports, new_todo, new_image_count, image,
          tags, title, author, license, language, prefill, answer, prompted,
          passed, loaded, written, prev>>

----------------------------------------------------------------------------
(* Bounds *)
MaxImages  == 3   \* files in images/
MaxEntries == 2   \* entries of the data.json the first run reads
MaxWrites  == 2   \* runs in succession that rewrite data.json
MaxHash    == 2   \* distinct file contents

----------------------------------------------------------------------------
(* Strings *)
EMPTY == << >>
DOT   == "."

\* code point of the characters the model uses (ordering of str)
Ord(c) ==
    CASE c = " " -> 32 [] c = "-" -> 45 [] c = "." -> 46 [] c = "0" -> 48
      [] c = "1" -> 49 [] c = "A" -> 65 [] c = "C" -> 67 [] c = "Y" -> 89
      [] c = "a" -> 97 [] c = "b" -> 98 [] c = "c" -> 99 [] c = "d" -> 100
      [] c = "h" -> 104 [] c = "j" -> 106 [] c = "n" -> 110 [] c = "p" -> 112
      [] c = "t" -> 116 [] c = "u" -> 117 [] c = "x" -> 120 [] c = "y" -> 121

\* str.__lt__ : lexicographic by code point
RECURSIVE StrLess(_, _)
StrLess(s, t) ==
    IF t = EMPTY THEN FALSE
    ELSE IF s = EMPTY THEN TRUE
    ELSE IF Head(s) = Head(t) THEN StrLess(Tail(s), Tail(t))
    ELSE Ord(Head(s)) < Ord(Head(t))

\* str.lower()
LowerChar(c) == IF c = "A" THEN "a" ELSE IF c = "C" THEN "c" ELSE IF c = "Y" THEN "y" ELSE c
lower(s) == [i \in 1..Len(s) |-> LowerChar(s[i])]

\* str.strip()
IsSpace(c) == c = " "
RECURSIVE lstrip(_)
lstrip(s) == IF s # EMPTY /\ IsSpace(Head(s)) THEN lstrip(Tail(s)) ELSE s
RECURSIVE rstrip(_)
rstrip(s) ==
    IF s # EMPTY /\ IsSpace(s[Len(s)]) THEN rstrip(SubSeq(s, 1, Len(s) - 1)) ELSE s
strip(s) == rstrip(lstrip(s))

\* str.rfind('.') with 1-based positions; 0 stands for -1
rfind_dot(s) ==
    IF \E i \in 1..Len(s) : s[i] = DOT
    THEN CHOOSE i \in 1..Len(s) : s[i] = DOT /\ \A j \in (i+1)..Len(s) : s[j] # DOT
    ELSE 0

\* str.startswith
startswith(s, p) == Len(p) <= Len(s) /\ SubSeq(s, 1, Len(p)) = p

\* "{}.{}".format(name, ext)
format_name_ext(name, ext) == name \o <<DOT>> \o ext

----------------------------------------------------------------------------
(* Program constants *)
CC0    == <<"C", "C", "0", "-", "1", ".", "0">>
dutch  == <<"d", "u", "t", "c", "h">>
english == <<"e", "n", "g", "l", "i", "s", "h">>
french == <<"f", "r", "e", "n", "c", "h">>
german == <<"g", "e", "r", "m", "a", "n">>
valid_licenses  == {EMPTY, CC0}
valid_languages == {EMPTY, dutch, english, french, german}
YES_NO == {EMPTY, <<"Y">>, <<"n">>}

----------------------------------------------------------------------------
(* Pure functions of the program *)

\* split_ext without the test for -1: the slices image[:-1] and image[0:]
split_ext_no_test(img) ==
    LET i == rfind_dot(img) IN
    IF i = 0 THEN <<SubSeq(img, 1, Len(img) - 1), img>>
    ELSE <<SubSeq(img, 1, i - 1), SubSeq(img, i + 1, Len(img))>>

\* add_image.split_ext
split_ext(img) ==
    LET i == rfind_dot(img) IN
    IF i = 0 THEN <<img, EMPTY>>
    ELSE <<SubSeq(img, 1, i - 1), SubSeq(img, i + 1, Len(img))>>

\* os.path.splitext on a name without directory separator: the extension
\* starts at the last dot, unless only dots precede that dot
splitext(p) ==
    LET d == rfind_dot(p) IN
    IF d > 0 /\ \E i \in 1..(d - 1) : p[i] # DOT
    THEN <<SubSeq(p, 1, d - 1), SubSeq(p, d, Len(p))>>
    ELSE <<p, EMPTY>>

\* dict operations on the sequence-of-members representation
Keys(d)      == {d[i].key : i \in 1..Len(d)}
Index(d, k)  == CHOOSE i \in 1..Len(d) : d[i].key = k
Get(d, k)    == d[Index(d, k)].obj
dict_set(d, k, o) ==
    IF k \in Keys(d) THEN [d EXCEPT ![Index(d, k)].obj = o]
    ELSE Append(d, [key |-> k, obj |-> o])

\* dict.get(field, "") of an entry
obj_get(o, f) == IF f \in DOMAIN o THEN o[f] ELSE EMPTY

\* json.load: members in text order, a repeated key keeps the last value
RECURSIVE json_load(_)
json_load(f) ==
    IF f = << >> THEN << >>
    ELSE LET n == Len(f) IN dict_set(json_load(SubSeq(f, 1, n - 1)), f[n].key, f[n].obj)

\* sorted(): insertion of a member by key
RECURSIVE insert_sorted(_, _)
insert_sorted(m, s) ==
    IF s = << >> THEN <<m>>
    ELSE IF StrLess(m.key, Head(s).key) THEN <<m>> \o s
    ELSE <<Head(s)>> \o insert_sorted(m, Tail(s))
\* json.dump(sort_keys=True): members sorted by key
RECURSIVE sorted_members(_)
sorted_members(d) ==
    IF d = << >> THEN << >> ELSE insert_sorted(Head(d), sorted_members(Tail(d)))
\* json.dump without sort_keys: members in dict order
json_dump_unsorted(d) == d
json_dump(d) == sorted_members(d)

\* get_db_set that expands only the first extension of each entry
get_db_set_first(d) ==
    { format_name_ext(d[i].key, d[i].obj.exts[1]) :
        i \in {k \in 1..Len(d) : Len(d[k].obj.exts) > 0} }

\* main.get_db_set
get_db_set(d) ==
    UNION { {format_name_ext(d[i].key, d[i].obj.exts[j]) : j \in 1..Len(d[i].obj.exts)} :
            i \in 1..Len(d) }

\* validators
is_valid_author(v)   == TRUE
is_valid_title(v)    == TRUE
is_valid_tags(v)     == Len(v) # 0 /\ lower(v) = v
is_valid_license(v)  == v \in valid_licenses
is_valid_language(v) == v \in valid_languages
is_valid_yes_no(v)   == v \in YES_NO

\* get_defaults_entry: the first key, in dict order, that starts with name
\* decides: key[len(name)] raises IndexError when the key is name itself
RECURSIVE defaults_scan(_, _, _)
defaults_scan(d, name, i) ==
    IF i > Len(d) THEN [kind |-> "none", obj |-> << >>]
    ELSE IF startswith(d[i].key, name)
         THEN IF Len(d[i].key) = Len(name) THEN [kind |-> "IndexError", obj |-> << >>]
              ELSE IF d[i].key[Len(name) + 1] = DOT
                   THEN [kind |-> "found", obj |-> d[i].obj]
                   ELSE defaults_scan(d, name, i + 1)
         ELSE defaults_scan(d, name, i + 1)
\* get_defaults_entry whose "return {}" is inside the loop: only the first key
\* of the dict is examined
get_defaults_entry_first_key(d, img) ==
    LET name == splitext(img)[1] IN
    IF Len(d) = 0 \/ ~startswith(d[1].key, name) THEN [kind |-> "none", obj |-> << >>]
    ELSE IF Len(d[1].key) = Len(name) THEN [kind |-> "IndexError", obj |-> << >>]
    ELSE IF d[1].key[Len(name) + 1] = DOT THEN [kind |-> "found", obj |-> d[1].obj]
    ELSE [kind |-> "none", obj |-> << >>]
get_defaults_entry(d, img) == defaults_scan(d, splitext(img)[1], 1)

----------------------------------------------------------------------------
(* Inputs: the files on disk, the data.json the first run finds, the lines  *)
(* the operator types                                                      *)
FileNames ==
    { <<"a", ".", "p">>, <<"a", ".", "j">>, <<"a", ".", "b", ".", "p">>,
      <<"a">>, <<".", "p">> }
Members ==
    { [key |-> <<"a">>, obj |-> [exts |-> << <<"p">> >>, tags |-> <<"x">>]],
      [key |-> <<"a">>, obj |-> [exts |-> << <<"b", ".", "p">> >>, tags |-> <<"x">>]],
      [key |-> <<"a", ".", "b">>,
       obj |-> [exts |-> << <<"p">> >>, tags |-> <<"y">>, title |-> <<"t">>, license |-> CC0]],
      [key |-> <<".", "p">>, obj |-> [exts |-> << <<"j">> >>, tags |-> <<"x">>]] }
Catalogs ==
    { f \in UNION {[1..n -> Members] : n \in 0..MaxEntries} :
        \A i, j \in 1..Len(f) : f[i].key = f[j].key => i = j }
\* a directory: its filenames and, for each, the digest of its content; digests
\* are numbered in the order of their first file (by name)
SetMax(S) == IF S = {} THEN 0 ELSE CHOOSE m \in S : \A n \in S : n <= m
Directories ==
    { h \in UNION { [S -> 1..MaxHash] :
                      S \in {T \in SUBSET FileNames : Cardinality(T) <= MaxImages} } :
        \A f \in DOMAIN h :
            h[f] <= 1 + SetMax({h[g] : g \in {x \in DOMAIN h : StrLess(x, f)}}) }

TagsInputs     == {EMPTY, <<" ">>, <<"A">>, <<"a">>, <<" ", "a">>}
TitleInputs    == {EMPTY, <<" ">>, <<"t">>}
AuthorInputs   == {EMPTY, <<"u">>}
LicenseInputs  == {EMPTY, CC0, <<"x">>}
LanguageInputs == {EMPTY, dutch, <<"x">>}
YesNoInputs    == {EMPTY, <<"Y">>, <<"n">>, <<"y">>}
StartInputs    == {EMPTY, <<"Y">>, <<"n">>, <<"n", " ">>}

NoRun == [wrote |-> FALSE, content |-> << >>, added |-> 0, complete |-> FALSE]

----------------------------------------------------------------------------
(* The run *)
Init ==
    /\ file \in Catalogs
    /\ images \in Directories
    /\ pc = "start"
    /\ writes = 0
    /\ db = << >>
    /\ db_images = {}
    /\ new_images = {}
    /\ dup_todo = {}
    /\ hashes = << >>
    /\ duplicates_found = FALSE
    /\ reports = {}
    /\ new_todo = {}
    /\ new_image_count = 0
    /\ image = EMPTY
    /\ tags = EMPTY /\ title = EMPTY /\ author = EMPTY
    /\ license = EMPTY /\ language = EMPTY
    /\ prefill = EMPTY
    /\ answer = EMPTY
    /\ prompted = {}
    /\ passed = {}
    /\ loaded = file
    /\ written = FALSE
    /\ prev = NoRun

\* Load that takes every file of images/ as new
Load_no_difference ==
    /\ pc = "start"
    /\ db' = json_load(file)
    /\ db_images' = get_db_set(db')
    /\ new_images' = DOMAIN images
    /\ dup_todo' = DOMAIN images
    /\ hashes' = << >>
    /\ duplicates_found' = FALSE
    /\ reports' = {}
    /\ loaded' = file
    /\ pc' = "dupcheck"
    /\ prompted' = {}
    /\ UNCHANGED <<file, images, writes, new_todo, new_image_count, image, fieldVars,
                   prefill, answer, passed, written, prev>>

\* main, lines 180-184, and the entry of check_duplicate_images
Load ==
    /\ pc = "start"
    /\ db' = json_load(file)
    /\ db_images' = get_db_set(db')
    /\ new_images' = DOMAIN images \ db_images'
    /\ dup_todo' = DOMAIN images
    /\ hashes' = << >>
    /\ duplicates_found' = FALSE
    /\ reports' = {}
    /\ loaded' = file
    /\ pc' = "dupcheck"
    /\ prompted' = {}
    /\ UNCHANGED <<file, images, writes, new_todo, new_image_count, image, fieldVars,
                   prefill, answer, passed, written, prev>>

\* guidance with the two "Remove" lines exchanged
guidance_exchanged(img, other, dbi) ==
    IF img \in dbi
    THEN IF other \in dbi THEN [msg |-> "both", remove |-> {}]
         ELSE [msg |-> "remove", remove |-> {img}]
    ELSE IF other \in dbi THEN [msg |-> "remove", remove |-> {other}]
         ELSE [msg |-> "remove_one", remove |-> {}]

\* the guidance printed for a pair of identical files
guidance(img, other, dbi) ==
    IF img \in dbi
    THEN IF other \in dbi THEN [msg |-> "both", remove |-> {}]
         ELSE [msg |-> "remove", remove |-> {other}]
    ELSE IF other \in dbi THEN [msg |-> "remove", remove |-> {img}]
         ELSE [msg |-> "remove_one", remove |-> {}]

\* DupStep whose flag assignment is nested in the last branch: it is set only
\* when neither file is in the catalog
DupStep_flag_nested ==
    /\ pc = "dupcheck"
    /\ \E img \in dup_todo :
        LET file_hash == images[img] IN
        /\ dup_todo' = dup_todo \ {img}
        /\ IF file_hash \in DOMAIN hashes
           THEN /\ reports' = reports \cup
                      {[image |-> img, other |-> hashes[file_hash]]
                          @@ guidance(img, hashes[file_hash], db_images)}
                /\ duplicates_found' =
                      (duplicates_found
                         \/ (img \notin db_images /\ hashes[file_hash] \notin db_images))
                /\ hashes' = hashes
           ELSE /\ hashes' = hashes @@ (file_hash :> img)
                /\ UNCHANGED <<reports, duplicates_found>>
    /\ UNCHANGED <<file, images, pc, writes, db, scanVars, new_todo, new_image_count,
                   image, fieldVars, prefill, answer, prompted, passed, loaded,
                   written, prev>>

\* check_duplicate_images: one iteration of the for loop, in the set's order
DupStep ==
    /\ pc = "dupcheck"
    /\ \E img \in dup_todo :
        LET file_hash == images[img] IN
        /\ dup_todo' = dup_todo \ {img}
        /\ IF file_hash \in DOMAIN hashes
           THEN /\ reports' = reports \cup
                      {[image |-> img, other |-> hashes[file_hash]]
                          @@ guidance(img, hashes[file_hash], db_images)}
                /\ duplicates_found' = TRUE
                /\ hashes' = hashes
           ELSE /\ hashes' = hashes @@ (file_hash :> img)
                /\ UNCHANGED <<reports, duplicates_found>>
    /\ UNCHANGED <<file, images, pc, writes, db, scanVars, new_todo, new_image_count,
                   image, fieldVars, prefill, answer, prompted, passed, loaded,
                   written, prev>>

\* DupDone with the duplicate gate tested after the no-new-images test, and
\* only printed
DupDone_gate_late ==
    /\ pc = "dupcheck"
    /\ dup_todo = {}
    /\ IF Cardinality(new_images) = 0 THEN pc' = "abort_no_new" /\ prompted' = prompted
       ELSE pc' = "start_prompt" /\ prompted' = {"start"}
    /\ UNCHANGED <<file, images, writes, db, scanVars, dupVars, new_todo, new_image_count,
                   image, fieldVars, prefill, answer, passed, loaded, written, prev>>

\* main, lines 186-194: the duplicate gate, the no-new-images abort, the start prompt
DupDone ==
    /\ pc = "dupcheck"
    /\ dup_todo = {}
    /\ IF duplicates_found THEN pc' = "abort_duplicates" /\ prompted' = prompted
       ELSE IF Cardinality(new_images) = 0 THEN pc' = "abort_no_new" /\ prompted' = prompted
       ELSE pc' = "start_prompt" /\ prompted' = {"start"}
    /\ UNCHANGED <<file, images, writes, db, scanVars, dupVars, new_todo, new_image_count,
                   image, fieldVars, prefill, answer, passed, loaded, written, prev>>

\* Start that writes the catalog back also when the operator declines
Start_write_anyway ==
    /\ pc = "start_prompt"
    /\ \E v \in StartInputs :
        /\ answer' = v
        /\ IF v = <<"n">>
           THEN /\ pc' = "abort_declined"
                /\ file' = json_dump(db)
                /\ UNCHANGED <<new_todo, new_image_count>>
           ELSE /\ pc' = "classify" /\ new_todo' = new_images /\ new_image_count' = 0
                /\ file' = file
    /\ UNCHANGED <<images, writes, db, scanVars, dupVars, image, fieldVars,
                   prefill, prompted, passed, loaded, written, prev>>

\* main, lines 194-199: the answer to the start prompt (input(), not stripped)
Start ==
    /\ pc = "start_prompt"
    /\ \E v \in StartInputs :
        /\ answer' = v
        /\ IF v = <<"n">>
           THEN pc' = "abort_declined" /\ UNCHANGED <<new_todo, new_image_count>>
           ELSE pc' = "classify" /\ new_todo' = new_images /\ new_image_count' = 0
    /\ UNCHANGED <<file, images, writes, db, scanVars, dupVars, image, fieldVars,
                   prefill, prompted, passed, loaded, written, prev>>

\* main, line 200, and add_image, lines 88-129: the next image of the set, up to
\* its first prompt
AddImage ==
    /\ pc = "classify"
    /\ \E img \in new_todo :
        LET name == split_ext(img)[1]
            ext  == split_ext(img)[2]
            default == get_defaults_entry(db, img)
        IN  /\ new_todo' = new_todo \ {img}
            /\ image' = img
            /\ IF Len(ext) = 0
               THEN /\ pc' = "classify"
                    /\ prompted' = {}
                    /\ UNCHANGED <<fieldVars, prefill, passed>>
               ELSE IF name \in Keys(db)
               THEN /\ pc' = "new_type"
                    /\ prompted' = {"new_type"}
                    /\ prefill' = EMPTY
                    /\ UNCHANGED <<fieldVars, passed>>
               ELSE IF default.kind = "IndexError"
               THEN /\ pc' = "crashed"
                    /\ prompted' = {}
                    /\ UNCHANGED <<fieldVars, prefill, passed>>
               ELSE /\ tags' = obj_get(default.obj, "tags")
                    /\ title' = obj_get(default.obj, "title")
                    /\ author' = obj_get(default.obj, "author")
                    /\ license' = obj_get(default.obj, "license")
                    /\ language' = obj_get(default.obj, "language")
                    /\ pc' = "tags"
                    /\ prompted' = {"tags"}
                    /\ prefill' = tags'
                    /\ passed' = {}
    /\ UNCHANGED <<file, images, writes, db, scanVars, dupVars, new_image_count,
                   answer, loaded, written, prev>>

\* AnswerNewType that puts the new extension in front of the list
AnswerNewType_prepend ==
    /\ pc = "new_type"
    /\ \E v \in YesNoInputs :
        LET name == split_ext(image)[1]
            ext  == split_ext(image)[2]
        IN  IF ~is_valid_yes_no(v)
            THEN /\ prefill' = v
                 /\ UNCHANGED <<pc, db, new_image_count, answer>>
            ELSE /\ answer' = strip(v)
                 /\ prefill' = EMPTY
                 /\ pc' = "classify"
                 /\ IF answer' = EMPTY \/ answer' = <<"Y">>
                    THEN /\ db' = [db EXCEPT ![Index(db, name)].obj.exts = <<ext>> \o @]
                         /\ new_image_count' = new_image_count + 1
                    ELSE UNCHANGED <<db, new_image_count>>
    /\ UNCHANGED <<file, images, writes, scanVars, dupVars, new_todo, image, fieldVars,
                   prompted, passed, loaded, written, prev>>

\* AnswerNewType that assigns the list [ext] instead of appending to it
AnswerNewType_assign ==
    /\ pc = "new_type"
    /\ \E v \in YesNoInputs :
        LET name == split_ext(image)[1]
            ext  == split_ext(image)[2]
        IN  IF ~is_valid_yes_no(v)
            THEN /\ prefill' = v
                 /\ UNCHANGED <<pc, db, new_image_count, answer>>
            ELSE /\ answer' = strip(v)
                 /\ prefill' = EMPTY
                 /\ pc' = "classify"
                 /\ IF answer' = EMPTY \/ answer' = <<"Y">>
                    THEN /\ db' = [db EXCEPT ![Index(db, name)].obj.exts = <<ext>>]
                         /\ new_image_count' = new_image_count + 1
                    ELSE UNCHANGED <<db, new_image_count>>
    /\ UNCHANGED <<file, images, writes, scanVars, dupVars, new_todo, image, fieldVars,
                   prompted, passed, loaded, written, prev>>

\* add_image, lines 113-121: one line read at "Add ... as new type?"
AnswerNewType ==
    /\ pc = "new_type"
    /\ \E v \in YesNoInputs :
        LET name == split_ext(image)[1]
            ext  == split_ext(image)[2]
        IN  IF ~is_valid_yes_no(v)
            THEN /\ prefill' = v
                 /\ UNCHANGED <<pc, db, new_image_count, answer>>
            ELSE /\ answer' = strip(v)
                 /\ prefill' = EMPTY
                 /\ pc' = "classify"
                 /\ IF answer' = EMPTY \/ answer' = <<"Y">>
                    THEN /\ db' = [db EXCEPT ![Index(db, name)].obj.exts = Append(@, ext)]
                         /\ new_image_count' = new_image_count + 1
                    ELSE UNCHANGED <<db, new_image_count>>
    /\ UNCHANGED <<file, images, writes, scanVars, dupVars, new_todo, image, fieldVars,
                   prompted, passed, loaded, written, prev>>

\* EnterTags that stores the entry as soon as its tags are known
EnterTags_saving ==
    /\ pc = "tags"
    /\ \E v \in TagsInputs :
        IF ~is_valid_tags(v)
        THEN prefill' = v /\ UNCHANGED <<pc, tags, prompted, passed, db>>
        ELSE /\ tags' = strip(v)
             /\ db' = dict_set(db, split_ext(image)[1],
                                [tags |-> tags', exts |-> <<split_ext(image)[2]>>])
             /\ pc' = "title"
             /\ prefill' = title
             /\ prompted' = prompted \cup {"title"}
             /\ passed' = passed \cup {"tags"}
    /\ UNCHANGED <<file, images, writes, scanVars, dupVars, new_todo, new_image_count,
                   image, title, author, license, language, answer, loaded, written, prev>>

\* add_image, line 132: one line read at "Tags: "
EnterTags ==
    /\ pc = "tags"
    /\ \E v \in TagsInputs :
        IF ~is_valid_tags(v)
        THEN prefill' = v /\ UNCHANGED <<pc, tags, prompted, passed>>
        ELSE /\ tags' = strip(v)
             /\ pc' = "title"
             /\ prefill' = title
             /\ prompted' = prompted \cup {"title"}
             /\ passed' = passed \cup {"tags"}
    /\ UNCHANGED <<file, images, writes, db, scanVars, dupVars, new_todo, new_image_count,
                   image, title, author, license, language, answer, loaded, written, prev>>

\* add_image, line 133: one line read at "Title: "
EnterTitle ==
    /\ pc = "title"
    /\ \E v \in TitleInputs :
        IF ~is_valid_title(v)
        THEN prefill' = v /\ UNCHANGED <<pc, title, prompted, passed>>
        ELSE /\ title' = strip(v)
             /\ pc' = "author"
             /\ prefill' = author
             /\ prompted' = prompted \cup {"author"}
             /\ passed' = passed \cup {"title"}
    /\ UNCHANGED <<file, images, writes, db, scanVars, dupVars, new_todo, new_image_count,
                   image, tags, author, license, language, answer, loaded, written, prev>>

\* add_image, line 134: one line read at "Author: "
EnterAuthor ==
    /\ pc = "author"
    /\ \E v \in AuthorInputs :
        IF ~is_valid_author(v)
        THEN prefill' = v /\ UNCHANGED <<pc, author, prompted, passed>>
        ELSE /\ author' = strip(v)
             /\ pc' = "license"
             /\ prefill' = license
             /\ prompted' = prompted \cup {"license"}
             /\ passed' = passed \cup {"author"}
    /\ UNCHANGED <<file, images, writes, db, scanVars, dupVars, new_todo, new_image_count,
                   image, tags, title, license, language, answer, loaded, written, prev>>

\* add_image, line 135: one line read at "License: "
EnterLicense ==
    /\ pc = "license"
    /\ \E v \in LicenseInputs :
        IF ~is_valid_license(v)
        THEN prefill' = v /\ UNCHANGED <<pc, license, prompted, passed>>
        ELSE /\ license' = strip(v)
             /\ pc' = "language"
             /\ prefill' = language
             /\ prompted' = prompted \cup {"language"}
             /\ passed' = passed \cup {"license"}
    /\ UNCHANGED <<file, images, writes, db, scanVars, dupVars, new_todo, new_image_count,
                   image, tags, title, author, language, answer, loaded, written, prev>>

\* add_image, line 136: one line read at "Language: "
EnterLanguage ==
    /\ pc = "language"
    /\ \E v \in LanguageInputs :
        IF ~is_valid_language(v)
        THEN prefill' = v /\ UNCHANGED <<pc, language, prompted, passed>>
        ELSE /\ language' = strip(v)
             /\ pc' = "done_prompt"
             /\ prefill' = EMPTY
             /\ prompted' = prompted \cup {"done_prompt"}
             /\ passed' = passed \cup {"language"}
    /\ UNCHANGED <<file, images, writes, db, scanVars, dupVars, new_todo, new_image_count,
                   image, tags, title, author, license, answer, loaded, written, prev>>

\* add_image, lines 144-151: a key is set only for a non-empty value
optional(f, v) == IF Len(v) > 0 THEN f :> v ELSE << >>

\* new_entry that stores the four optional keys whatever their value
new_entry_all_keys(tg, ti, au, li, la, ext) ==
    [tags |-> tg, exts |-> <<ext>>, title |-> ti, language |-> la,
     author |-> au, license |-> li]

\* new_entry that leaves the extension out of the list
new_entry_no_ext(tg, ti, au, li, la, ext) ==
    [tags |-> tg, exts |-> << >>]
        @@ optional("title", ti) @@ optional("language", la)
        @@ optional("author", au) @@ optional("license", li)

\* add_image, lines 142-151: the entry built from the collected fields
new_entry(tg, ti, au, li, la, ext) ==
    [tags |-> tg, exts |-> <<ext>>]
        @@ optional("title", ti) @@ optional("language", la)
        @@ optional("author", au) @@ optional("license", li)

\* add_image, lines 138-157: one line read at "Done?"; on return the locals of
\* the call are gone
AnswerDone ==
    /\ pc = "done_prompt"
    /\ \E v \in YesNoInputs :
        LET name == split_ext(image)[1]
            ext  == split_ext(image)[2]
        IN  IF ~is_valid_yes_no(v)
            THEN /\ prefill' = v
                 /\ UNCHANGED <<pc, db, new_image_count, answer, prompted, passed, fieldVars>>
            ELSE /\ answer' = strip(v)
                 /\ IF answer' = EMPTY \/ answer' = <<"Y">>
                    THEN /\ db' = dict_set(db, name,
                                    new_entry(tags, title, author, license, language, ext))
                         /\ new_image_count' = new_image_count + 1
                         /\ pc' = "classify"
                         /\ prefill' = EMPTY
                         /\ tags' = EMPTY /\ title' = EMPTY /\ author' = EMPTY
                         /\ license' = EMPTY /\ language' = EMPTY
                         /\ passed' = {}
                         /\ UNCHANGED prompted
                    ELSE /\ pc' = "tags"
                         /\ prefill' = tags
                         /\ prompted' = prompted \cup {"tags"}
                         /\ passed' = {}
                         /\ UNCHANGED <<db, new_image_count, fieldVars>>
    /\ UNCHANGED <<file, images, writes, scanVars, dupVars, new_todo, image,
                   loaded, written, prev>>

\* main, lines 203-206: after the loop, data.json is rewritten
Write ==
    /\ pc = "classify"
    /\ new_todo = {}
    /\ file' = json_dump(db)
    /\ written' = TRUE
    /\ writes' = writes + 1
    /\ pc' = "done"
    /\ UNCHANGED <<images, db, scanVars, dupVars, new_todo, new_image_count, image,
                   fieldVars, prefill, answer, prompted, passed, loaded, prev>>

PromptStates ==
    {"start_prompt", "new_type", "tags", "title", "author", "license", "language",
     "done_prompt"}
FieldStates == {"tags", "title", "author", "license", "language"}
Terminal ==
    {"abort_duplicates", "abort_no_new", "abort_declined", "done", "interrupted", "crashed"}

\* Interrupt whose handler saves the catalog before exiting
Interrupt_saving ==
    /\ pc \in PromptStates
    /\ pc' = "interrupted"
    /\ file' = json_dump(db)
    /\ UNCHANGED <<images, writes, db, scanVars, dupVars, new_todo, new_image_count,
                   image, fieldVars, prefill, answer, prompted, passed, loaded, written,
                   prev>>

\* main, line 178: SIGINT while the process waits for a line at a prompt
Interrupt ==
    /\ pc \in PromptStates
    /\ pc' = "interrupted"
    /\ UNCHANGED <<file, images, writes, db, scanVars, dupVars, new_todo, new_image_count,
                   image, fieldVars, prefill, answer, prompted, passed, loaded, written,
                   prev>>

\* lines 208-209: the tool is run again, over the same directory
Restart ==
    /\ pc \in Terminal
    /\ writes < MaxWrites
    /\ prev' = IF written
               THEN [wrote |-> TRUE, content |-> file, added |-> new_image_count,
                     complete |-> new_image_count =
                        Cardinality({f \in new_images : Len(split_ext(f)[2]) > 0})]
               ELSE NoRun
    /\ pc' = "start"
    /\ db' = << >>
    /\ db_images' = {} /\ new_images' = {}
    /\ dup_todo' = {} /\ hashes' = << >> /\ duplicates_found' = FALSE /\ reports' = {}
    /\ new_todo' = {} /\ new_image_count' = 0
    /\ image' = EMPTY
    /\ tags' = EMPTY /\ title' = EMPTY /\ author' = EMPTY
    /\ license' = EMPTY /\ language' = EMPTY
    /\ prefill' = EMPTY /\ answer' = EMPTY
    /\ prompted' = {} /\ passed' = {}
    /\ loaded' = file
    /\ written' = FALSE
    /\ UNCHANGED <<file, images, writes>>

Next ==
    \/ Load \/ DupStep \/ DupDone \/ Start \/ AddImage \/ AnswerNewType
    \/ EnterTags \/ EnterTitle \/ EnterAuthor \/ EnterLicense \/ EnterLanguage
    \/ AnswerDone \/ Write \/ Interrupt \/ Restart

Spec == Init /\ [][Next]_vars

----------------------------------------------------------------------------
(* Notions the claims use *)
HasDuplicates ==
    \E f, g \in DOMAIN images : f # g /\ images[f] = images[g]
\* the catalog the current run loaded
Catalog == json_load(loaded)
HasDot(s) == \E i \in 1..Len(s) : s[i] = DOT
\* the pair (name, ext) is an entry of catalog c with that extension
Represented(c, pair) ==
    \E i \in 1..Len(c) :
        /\ c[i].key = pair[1]
        /\ \E j \in 1..Len(c[i].obj.exts) : c[i].obj.exts[j] = pair[2]
ExtsOf(c) == UNION { {c[i].obj.exts[j] : j \in 1..Len(c[i].obj.exts)} : i \in 1..Len(c) }
Yes == {EMPTY, <<"Y">>}

----------------------------------------------------------------------------
C2_InterruptNoWrite ==
    pc = "interrupted" => ~written /\ file = loaded
\* interrupted in the middle of an entry, after an earlier image changed db
C2_Witness ==
    /\ pc = "interrupted"
    /\ new_image_count > 0
    /\ db # Catalog
    /\ passed # {}
    /\ Len(loaded) >= 2
    /\ json_dump(db) # loaded

\* C3 as stated: for every catalog, extensions with a separator included, the new
\* images are the files whose pair, split at the last separator, is in no entry.
C3_Original ==
    pc # "start" =>
        new_images = {f \in DOMAIN images : ~Represented(Catalog, split_ext(f))}
\* C3 amended: for catalogs none of whose extensions contains the separator, the
\* new images are the files without a separator and the files whose pair,
\* split at the last separator, is in no entry.
C3_NewImages ==
    (pc # "start" /\ \A e \in ExtsOf(Catalog) : ~HasDot(e)) =>
        new_images = {f \in DOMAIN images :
                        ~HasDot(f) \/ ~Represented(Catalog, split_ext(f))}
\* a base name with a separator, one file known and one file new
C3_Witness ==
    /\ pc # "start"
    /\ \A e \in ExtsOf(Catalog) : ~HasDot(e)
    /\ \E i \in 1..Len(Catalog) : HasDot(Catalog[i].key)
    /\ \E f \in DOMAIN images : HasDot(f) /\ f \notin new_images
    /\ \E f \in DOMAIN images : HasDot(f) /\ f \in new_images

C5_TagsValid ==
    \A i \in 1..Len(db) :
        db[i].key \notin Keys(Catalog) =>
            Len(db[i].obj.tags) > 0 /\ lower(db[i].obj.tags) = db[i].obj.tags

\* C6: the answer to "Add ... as new type?" ends add_image without a field
\* prompt; yes appends the extension to the entry of the base name, leaves the
\* rest of that entry and every other entry as they were and counts 1; n leaves
\* db as it was and counts 0.
C6_Step ==
    LET name == split_ext(image)[1]
        ext  == split_ext(image)[2]
        i    == Index(db, name)
    IN  /\ name \in Keys(db)
        /\ pc' = "classify"
        /\ prompted = {"new_type"} /\ prompted' = prompted
        /\ Len(db') = Len(db)
        /\ \A j \in 1..Len(db) : j # i => db'[j] = db[j]
        /\ db'[i].key = name
        /\ DOMAIN db'[i].obj = DOMAIN db[i].obj
        /\ \A f \in DOMAIN db[i].obj : f # "exts" => db'[i].obj[f] = db[i].obj[f]
        /\ IF answer' \in Yes
           THEN /\ db'[i].obj.exts = Append(db[i].obj.exts, ext)
                /\ new_image_count' = new_image_count + 1
           ELSE /\ answer' = <<"n">>
                /\ db' = db
                /\ new_image_count' = new_image_count
C6_NewTypeMerge ==
    [][(pc = "new_type" /\ pc' \notin {"new_type", "interrupted"}) => C6_Step]_vars
\* an extension was appended to an entry the run had loaded
C6_Witness ==
    /\ pc = "classify"
    /\ prompted = {"new_type"}
    /\ answer \in Yes
    /\ new_image_count = 1
    /\ split_ext(image)[1] \in Keys(Catalog)
    /\ Len(Get(db, split_ext(image)[1]).exts) = 2

\* C7: when the loop takes a filename without separator, add_image returns at
\* once: no prompt, count and db as they were.
C7_NoExtensionSkipped ==
    [][(pc = "classify" /\ new_todo' # new_todo /\ ~HasDot(image')) =>
          /\ pc' = "classify"
          /\ prompted' = {}
          /\ db' = db
          /\ new_image_count' = new_image_count]_vars
\* the file without separator was taken after another image had been added
C7_Witness ==
    /\ pc = "classify"
    /\ image \in DOMAIN images
    /\ ~HasDot(image)
    /\ image \notin new_todo
    /\ new_image_count = 1
    /\ prompted = {}

\* C8: within a run db changes only at the yes to "Add ... as new type?" and at
\* the yes to "Done?", the latter after all five validators accepted in the
\* current round; at every field prompt, and at the no to "Done?", db stays.
C8_NoPartialEntry ==
    [][(pc # "start" /\ pc' # "start" /\ db' # db) =>
          \/ pc = "new_type" /\ answer' \in Yes
          \/ /\ pc = "done_prompt" /\ answer' \in Yes
             /\ passed = FieldStates
             /\ Keys(db') = Keys(db) \cup {split_ext(image)[1]}]_vars
\* an entry was inserted after its five fields and the yes to "Done?"
C8_Witness ==
    /\ pc = "classify"
    /\ "done_prompt" \in prompted
    /\ answer \in Yes
    /\ Keys(db) # Keys(Catalog)
    /\ new_image_count = 1

C10_Original ==
    (pc \in {"abort_no_new", "abort_declined", "done"} /\ new_image_count = 0) =>
        written /\ file = sorted_members(Catalog)
\* C10 amended: a run whose classification loop has finished has written db,
\* keys sorted, mutation or not; if it added nothing the content is the sorted
\* catalog it loaded, and if the run before it also wrote having added
\* nothing, both wrote the same content.
IsSorted(f) == \A i, j \in 1..Len(f) : i < j => StrLess(f[i].key, f[j].key)
C10_WriteAfterClassification ==
    pc = "done" =>
        /\ written
        /\ IsSorted(file)
        /\ {file[i] : i \in 1..Len(file)} = {db[i] : i \in 1..Len(db)}
        /\ Len(file) = Len(db)
        /\ (new_image_count = 0 => db = Catalog)
        /\ (new_image_count = 0 /\ prev.wrote /\ prev.added = 0 => file = prev.content)
\* the second of two runs that wrote a catalog of two entries, nothing added
C10_Witness ==
    /\ pc = "done"
    /\ new_image_count = 0
    /\ prev.wrote /\ prev.added = 0
    /\ Len(file) >= 2

----------------------------------------------------------------------------
\* the allow-lists as the specification gives them
SpecLicenses  == {EMPTY, <<"C", "C", "0", "-", "1", ".", "0">>}
SpecLanguages ==
    {EMPTY, <<"d", "u", "t", "c", "h">>, <<"e", "n", "g", "l", "i", "s", "h">>,
     <<"f", "r", "e", "n", "c", "h">>, <<"g", "e", "r", "m", "a", "n">>}
\* the entries of db that classification created in this run
Created == {i \in 1..Len(db) : db[i].key \notin Keys(Catalog)}

\* C11: an entry created by classification has a license key only with a
\* non-empty value of the license allow-list, a language key only with a
\* non-empty value of the language allow-list, a title or author key only with
\* a non-empty value; the two validators accept exactly the listed values.
C11_AllowListsAndOptionalKeys ==
    /\ \A i \in Created :
          LET o == db[i].obj IN
          /\ "license" \in DOMAIN o => o.license # EMPTY /\ o.license \in SpecLicenses
          /\ "language" \in DOMAIN o => o.language # EMPTY /\ o.language \in SpecLanguages
          /\ "title" \in DOMAIN o => o.title # EMPTY
          /\ "author" \in DOMAIN o => o.author # EMPTY
    /\ \A v \in LicenseInputs \cup SpecLicenses : is_valid_license(v) <=> v \in SpecLicenses
    /\ \A v \in LanguageInputs \cup SpecLanguages :
          is_valid_language(v) <=> v \in SpecLanguages
    /\ (pc = "language" /\ "license" \in passed) => license \in SpecLicenses
    /\ (pc = "done_prompt") => language \in SpecLanguages
\* an entry created with a license and a language and without title and author
C11_Witness ==
    \E i \in Created :
        /\ DOMAIN db[i].obj = {"tags", "exts", "license", "language"}
        /\ db[i].obj.license # EMPTY

\* no extension twice in an entry, no filename composed by two entries
Unique(c) ==
    /\ \A i \in 1..Len(c) : \A j, k \in 1..Len(c[i].obj.exts) :
          c[i].obj.exts[j] = c[i].obj.exts[k] => j = k
    /\ \A i, k \in 1..Len(c) : \A j \in 1..Len(c[i].obj.exts) :
          \A l \in 1..Len(c[k].obj.exts) :
              format_name_ext(c[i].key, c[i].obj.exts[j])
                  = format_name_ext(c[k].key, c[k].obj.exts[l]) => i = k

\* C12: if the loaded catalog has no extension twice in an entry and no
\* filename composed by two entries, then db has neither at any point of the run.
C12_UniquenessPreserved ==
    (pc # "start" /\ Unique(Catalog)) => Unique(db)
\* a new entry and then a second extension for it, in one run
C12_Witness ==
    /\ pc = "classify"
    /\ Unique(Catalog)
    /\ new_image_count = 2
    /\ \E i \in Created : Len(db[i].obj.exts) = 2

\* C13: a run that went past the start confirmation and ended without an
\* interrupt has written data.json, whatever the filenames and the catalog.
C13_PersistenceFollows ==
    (pc \in Terminal
        /\ pc \notin {"abort_duplicates", "abort_no_new", "abort_declined", "interrupted"})
    => written

\* s is a strict prefix of t and the separator follows it in t
PrefixThenDot(s, t) ==
    /\ Len(s) < Len(t)
    /\ \A k \in 1..Len(s) : t[k] = s[k]
    /\ t[Len(s) + 1] = DOT
\* the five locals are the fields of entry o, the empty string for a missing one
DefaultsAre(o) ==
    /\ tags = obj_get(o, "tags")
    /\ title = obj_get(o, "title")
    /\ author = obj_get(o, "author")
    /\ license = obj_get(o, "license")
    /\ language = obj_get(o, "language")
\* add_image has just shown the first "Tags: " prompt of a brand-new image
AtFirstTagsPrompt == pc = "tags" /\ prompted = {"tags"}

\* C14 as stated: the defaults are those of an entry whose base name is a
\* strict prefix of the new image's base name, the separator following; all
\* empty if there is none.
C14_Original ==
    AtFirstTagsPrompt =>
        LET name == split_ext(image)[1]
            M == {i \in 1..Len(db) : PrefixThenDot(db[i].key, name)}
        IN  IF M = {} THEN DefaultsAre(<< >>) ELSE \E i \in M : DefaultsAre(db[i].obj)
\* C14 amended: the defaults are those of an entry whose base name has the new
\* image's name (the filename without its last extension, a leading dot not
\* starting an extension) as a strict prefix, the separator following; all
\* empty if there is none.
C14_DefaultsLookup ==
    AtFirstTagsPrompt =>
        LET i0 == rfind_dot(image)
            name == IF i0 > 0 /\ \E k \in 1..(i0 - 1) : image[k] # DOT
                    THEN SubSeq(image, 1, i0 - 1) ELSE image
            M == {i \in 1..Len(db) : PrefixThenDot(name, db[i].key)}
        IN  IF M = {} THEN DefaultsAre(<< >>) ELSE \E i \in M : DefaultsAre(db[i].obj)
\* defaults taken from an entry that is not the first of the catalog
C14_Witness ==
    /\ AtFirstTagsPrompt
    /\ Len(db) = 2
    /\ ~startswith(db[1].key, splitext(image)[1])
    /\ tags # EMPTY /\ title # EMPTY /\ license # EMPTY /\ author = EMPTY

\* C15: the order in which the new images are classified is fixed by the
\* catalog and the directory: at each turn of the loop one image only can be
\* the next.
C15_DeterministicOrder ==
    pc = "classify" =>
        Cardinality({f \in new_todo : ENABLED (AddImage /\ image' = f)}) <= 1

IsPrefix(s, t) == Len(s) <= Len(t) /\ \A k \in 1..Len(s) : t[k] = s[k]
\* C17: within a run every entry of db stays at its place under its key, its
\* keys and its values other than exts are unchanged, its extension list is a
\* prefix of the later one; a member is added only under a key db did not have.
C17_Monotonic ==
    [][(pc # "start" /\ pc' # "start") =>
          /\ Len(db') >= Len(db)
          /\ \A i \in 1..Len(db) :
                /\ db'[i].key = db[i].key
                /\ DOMAIN db'[i].obj = DOMAIN db[i].obj
                /\ \A f \in DOMAIN db[i].obj \ {"exts"} : db'[i].obj[f] = db[i].obj[f]
                /\ IsPrefix(db[i].obj.exts, db'[i].obj.exts)
          /\ \A i \in (Len(db) + 1)..Len(db') : db'[i].key \notin Keys(db)]_vars
\* a loaded entry got a second extension and a new entry was inserted
C17_Witness ==
    /\ pc = "classify"
    /\ Len(db) > Len(Catalog)
    /\ Len(Catalog) >= 1
    /\ \E i \in 1..Len(Catalog) : Len(db[i].obj.exts) > Len(Catalog[i].obj.exts)

\* the files whose name has a non-empty extension after its last separator
WithExtension(S) == {f \in S : HasDot(f) /\ f[Len(f)] # DOT}
\* C18: when a run has written and every new image with an extension was added
\* (no "new type" question was answered with n), every file with an extension
\* is in the expansion of the persisted catalog, and the new images of the
\* run that follows are files without extension.
C18_Convergence ==
    /\ (pc = "done" /\ new_image_count = Cardinality(WithExtension(new_images))) =>
          \A f \in WithExtension(DOMAIN images) :
              \E i \in 1..Len(file) : \E j \in 1..Len(file[i].obj.exts) :
                  f = file[i].key \o <<DOT>> \o file[i].obj.exts[j]
    /\ (pc # "start" /\ prev.wrote /\ prev.complete) =>
          new_images \cap WithExtension(DOMAIN images) = {}
\* the run that follows a run which added an image by a yes to "new type"
\* finds a new file, one without extension
C18_Witness ==
    /\ pc = "start_prompt"
    /\ prev.wrote /\ prev.complete
    /\ prev.added = 1
    /\ new_images # {}
    /\ \E i \in 1..Len(db) : Len(db[i].obj.exts) = 2
====
